---- MODULE Spec2Model ----
(***************************************************************************)
(* Model of the IPTV playlist aggregator in src/main.py.                   *)
(*                                                                         *)
(* A Python string is a sequence of atoms.  An atom is either one of the   *)
(* characters the code inspects (",", "#", "$", "[", "]", ":", "-", " ",   *)
(* a digit, a letter, LBRK/RBRK for the corner brackets) or an opaque      *)
(* chunk of ordinary characters ("News", "http://", "a/1").  The prefix    *)
(* "http://" is one atom, "https://" another.  Python's None is NoneVal.   *)
(* An OrderedDict is a sequence of records [k |-> key, v |-> value] with   *)
(* pairwise distinct keys, in insertion order.                             *)
(***************************************************************************)
EXTENDS Integers, Sequences, FiniteSets, TLC

VARIABLES pc, channel_name, cleaned_name, lines, channels, current_category,
          fetched, all_channels, template_channels, matched_channels,
          ip_version_priority, url_blacklist, written_urls, f_txt, f_m3u,
          cat_idx, ch_idx, sorted_urls, emitted

vars == <<pc, channel_name, cleaned_name, lines, channels, current_category,
          fetched, all_channels, template_channels, matched_channels,
          ip_version_priority, url_blacklist, written_urls, f_txt, f_m3u,
          cat_idx, ch_idx, sorted_urls, emitted>>

normVars == <<channel_name, cleaned_name>>
parseVars == <<lines, channels, current_category>>
pipeVars == <<fetched, all_channels, template_channels, matched_channels,
              ip_version_priority, url_blacklist, written_urls, f_txt, f_m3u,
              cat_idx, ch_idx, sorted_urls, emitted>>

(* ---------------------------- bounds ----------------------------------- *)
MaxNameLen == 3
MaxLines == 4
MaxSources == 3

(* ------------------------ string primitives ---------------------------- *)
NoneVal == <<"<None>">>

Truthy(s) == s # NoneVal /\ s # <<>>

Digits == {"0", "1", "5"}

RECURSIVE Concat(_)
Concat(ss) == IF ss = <<>> THEN <<>> ELSE Head(ss) \o Concat(Tail(ss))

RECURSIVE LStrip(_)
LStrip(s) == IF s # <<>> /\ Head(s) = " " THEN LStrip(Tail(s)) ELSE s

RECURSIVE RStrip(_)
RStrip(s) ==
  IF s # <<>> /\ s[Len(s)] = " " THEN RStrip(SubSeq(s, 1, Len(s) - 1)) ELSE s

Strip(s) == RStrip(LStrip(s))

StartsWith(s, p) == Len(s) >= Len(p) /\ SubSeq(s, 1, Len(p)) = p

Contains(s, p) ==
  \E i \in 1..(Len(s) - Len(p) + 1) : SubSeq(s, i, i + Len(p) - 1) = p

IndexOf(s, a) ==
  IF \E i \in 1..Len(s) : s[i] = a
  THEN CHOOSE i \in 1..Len(s) : s[i] = a /\ \A j \in 1..(i - 1) : s[j] # a
  ELSE 0

RECURSIVE Split(_, _)
Split(s, a) ==
  IF IndexOf(s, a) = 0 THEN <<s>>
  ELSE <<SubSeq(s, 1, IndexOf(s, a) - 1)>>
       \o Split(SubSeq(s, IndexOf(s, a) + 1, Len(s)), a)

(* ------------------------- clean_channel_name -------------------------- *)
StripCharsNoDash(s) == SelectSeq(s, LAMBDA a : a \notin {"$", "LBRK", "RBRK"})

StripChars(s) == SelectSeq(s, LAMBDA a : a \notin {"$", "LBRK", "RBRK", "-"})

StripSpace(s) == SelectSeq(s, LAMBDA a : a # " ")

RECURSIVE DropZeros(_)
DropZeros(d) ==
  IF Len(d) > 1 /\ Head(d) = "0" THEN DropZeros(Tail(d)) ELSE d

DigitRunLen(s) ==
  IF \E i \in 1..Len(s) : s[i] \notin Digits
  THEN (CHOOSE i \in 1..Len(s) :
          s[i] \notin Digits /\ \A j \in 1..(i - 1) : s[j] \in Digits) - 1
  ELSE Len(s)

RECURSIVE IntDigits(_)
IntDigits(s) ==
  IF s = <<>> THEN <<>>
  ELSE IF Head(s) \in Digits
       THEN DropZeros(SubSeq(s, 1, DigitRunLen(s)))
            \o IntDigits(SubSeq(s, DigitRunLen(s) + 1, Len(s)))
       ELSE <<Head(s)>> \o IntDigits(Tail(s))

UpperAtom(a) ==
  CASE a = "h" -> "H"
    [] a = "d" -> "D"
    [] a = "c" -> "C"
    [] OTHER -> a

Upper(s) == [i \in 1..Len(s) |-> UpperAtom(s[i])]

clean_channel_name(name) == Upper(IntDigits(StripSpace(StripChars(name))))

CCTV == <<"C", "C", "T", "V">>

NormalizeIfCCTV(name) ==
  IF name # <<>> /\ StartsWith(name, CCTV) THEN clean_channel_name(name)
  ELSE name

(* ------------------------- OrderedDict --------------------------------- *)
Keys(d) == [i \in 1..Len(d) |-> d[i].k]

Has(d, key) == \E i \in 1..Len(d) : d[i].k = key

Get(d, key) == d[CHOOSE i \in 1..Len(d) : d[i].k = key].v

Put(d, key, val) ==
  IF Has(d, key)
  THEN [i \in 1..Len(d) |-> IF d[i].k = key THEN [k |-> key, v |-> val] ELSE d[i]]
  ELSE Append(d, [k |-> key, v |-> val])

(* --------------------------- parse_m3u_lines --------------------------- *)
GroupTitle == <<"group-title=", "QUOTE">>

QuoteComma == <<"QUOTE", ",">>

ExtInf == <<"#", "EXTINF">>

\* re.search(r'group-title="(.*?)",(.*)', line): leftmost start, lazy group 1
GroupStart(line) ==
  IF Contains(line, GroupTitle)
  THEN CHOOSE i \in 1..Len(line) :
         /\ SubSeq(line, i, i + 1) = GroupTitle
         /\ \A j \in 1..(i - 1) : SubSeq(line, j, j + 1) # GroupTitle
  ELSE 0

GroupEnd(line) ==
  IF GroupStart(line) > 0
     /\ \E j \in (GroupStart(line) + 2)..Len(line) : SubSeq(line, j, j + 1) = QuoteComma
  THEN CHOOSE j \in (GroupStart(line) + 2)..Len(line) :
         /\ SubSeq(line, j, j + 1) = QuoteComma
         /\ \A m \in (GroupStart(line) + 2)..(j - 1) : SubSeq(line, m, m + 1) # QuoteComma
  ELSE 0

ExtInfMatch(line) == GroupEnd(line) > 0

ExtInfCategory(line) ==
  Strip(SubSeq(line, GroupStart(line) + 2, GroupEnd(line) - 1))

ExtInfName(line) == Strip(SubSeq(line, GroupEnd(line) + 2, Len(line)))

\* one iteration of the loop body; st = [channels, current_category, channel_name]
M3UStep(st, rawline) ==
  LET line == Strip(rawline) IN
  IF StartsWith(line, ExtInf)
  THEN IF ExtInfMatch(line)
       THEN [channels |-> IF Has(st.channels, ExtInfCategory(line))
                          THEN st.channels
                          ELSE Put(st.channels, ExtInfCategory(line), <<>>),
             current_category |-> ExtInfCategory(line),
             channel_name |-> NormalizeIfCCTV(ExtInfName(line))]
       ELSE st
  ELSE IF line # <<>> /\ ~StartsWith(line, <<"#">>)
       THEN IF Truthy(st.current_category) /\ Truthy(st.channel_name)
            THEN [st EXCEPT !.channels =
                    Put(st.channels, st.current_category,
                        Append(Get(st.channels, st.current_category),
                               <<st.channel_name, Strip(line)>>))]
            ELSE st
       ELSE st

ParseStart == [channels |-> <<>>, current_category |-> NoneVal, channel_name |-> NoneVal]

RECURSIVE M3UFold(_, _)
M3UFold(st, ls) == IF ls = <<>> THEN st ELSE M3UFold(M3UStep(st, Head(ls)), Tail(ls))

parse_m3u_lines(ls) == M3UFold(ParseStart, ls).channels

(* --------------------------- parse_txt_lines --------------------------- *)
GenreMark == <<"#", "genre", "#">>

StripEach(ss) == [i \in 1..Len(ss) |-> Strip(ss[i])]

PairsOf(name, urls) == [i \in 1..Len(urls) |-> <<name, urls[i]>>]

\* re.match(r"^(.*?),(.*?)$", line): splits at the first comma
TxtName(line) == NormalizeIfCCTV(Strip(SubSeq(line, 1, IndexOf(line, ",") - 1)))

TxtUrls(line) ==
  StripEach(Split(Strip(SubSeq(line, IndexOf(line, ",") + 1, Len(line))), "#"))

TxtStep(st, rawline) ==
  LET line == Strip(rawline) IN
  IF Contains(line, GenreMark)
  THEN [st EXCEPT !.current_category = Strip(Split(line, ",")[1]),
                  !.channels = Put(st.channels, Strip(Split(line, ",")[1]), <<>>)]
  ELSE IF Truthy(st.current_category)
       THEN IF IndexOf(line, ",") > 0
            THEN [st EXCEPT !.channel_name = TxtName(line),
                            !.channels =
                              Put(st.channels, st.current_category,
                                  Get(st.channels, st.current_category)
                                  \o PairsOf(TxtName(line), TxtUrls(line)))]
            ELSE IF line # <<>>
                 THEN [st EXCEPT !.channels =
                         Put(st.channels, st.current_category,
                             Append(Get(st.channels, st.current_category),
                                    <<line, <<>>>>))]
                 ELSE st
       ELSE st

RECURSIVE TxtFold(_, _)
TxtFold(st, ls) == IF ls = <<>> THEN st ELSE TxtFold(TxtStep(st, Head(ls)), Tail(ls))

parse_txt_lines(ls) == TxtFold(ParseStart, ls).channels

(* ----------------------------- parse_template -------------------------- *)
TemplateStep(st, rawline) ==
  LET line == Strip(rawline) IN
  IF line # <<>> /\ ~StartsWith(line, <<"#">>)
  THEN IF Contains(line, GenreMark)
       THEN [current_category |-> Strip(Split(line, ",")[1]),
             channels |-> Put(st.channels, Strip(Split(line, ",")[1]), <<>>)]
       ELSE IF Truthy(st.current_category)
            THEN [st EXCEPT !.channels =
                    Put(st.channels, st.current_category,
                        Append(Get(st.channels, st.current_category),
                               Strip(Split(line, ",")[1])))]
            ELSE st
  ELSE st

RECURSIVE TemplateFold(_, _)
TemplateFold(st, ls) ==
  IF ls = <<>> THEN st ELSE TemplateFold(TemplateStep(st, Head(ls)), Tail(ls))

parse_template(ls) ==
  TemplateFold([current_category |-> NoneVal, channels |-> <<>>], ls).channels

(* ------------------------------ fetch_channels ------------------------- *)
DetectWindow == 15

IsM3U(ls) ==
  \E i \in 1..Len(ls) : i <= DetectWindow /\ StartsWith(ls[i], ExtInf)

\* ok = FALSE: requests.get / raise_for_status raised RequestException
fetch_channels(text, ok) ==
  IF ~ok THEN <<>>
  ELSE IF IsM3U(text) THEN parse_m3u_lines(text) ELSE parse_txt_lines(text)

(* ------------------------------ merge_channels ------------------------- *)
MergeOverwrite(target, category, channel_list) == Put(target, category, channel_list)

MergeOne(target, category, channel_list) ==
  IF Has(target, category)
  THEN Put(target, category, Get(target, category) \o channel_list)
  ELSE Put(target, category, channel_list)

RECURSIVE merge_channels(_, _)
merge_channels(target, source) ==
  IF source = <<>> THEN target
  ELSE merge_channels(MergeOne(target, Head(source).k, Head(source).v), Tail(source))

(* ------------------------------ match_channels ------------------------- *)
RepoEntries(all) == Concat([i \in 1..Len(all) |-> all[i].v])

ScanUrls(all, name) ==
  LET hits == SelectSeq(RepoEntries(all), LAMBDA e : e[1] = name)
  IN [i \in 1..Len(hits) |-> hits[i][2]]

RECURSIVE MatchCategory(_, _, _)
MatchCategory(inner, channel_list, all) ==
  IF channel_list = <<>> THEN inner
  ELSE LET name == Head(channel_list)
           urls == ScanUrls(all, name)
       IN MatchCategory(
            IF urls = <<>> THEN inner
            ELSE Put(inner, name,
                     (IF Has(inner, name) THEN Get(inner, name) ELSE <<>>) \o urls),
            Tail(channel_list), all)

match_channels(template, all) ==
  [i \in 1..Len(template) |->
     [k |-> template[i].k, v |-> MatchCategory(<<>>, template[i].v, all)]]

(* ------------------------------ is_ipv6 -------------------------------- *)
HexColon == {"0", "1", "5", ":", "a", "f"}

is_ipv6(url) ==
  /\ Len(url) >= 4
  /\ url[1] = "http://"
  /\ url[2] = "["
  /\ \E k \in 4..Len(url) :
       url[k] = "]" /\ \A j \in 3..(k - 1) : url[j] \in HexColon

(* -------------------------- sort_and_filter_urls ----------------------- *)
SortKeyIgnoringPriority(priority, url) == is_ipv6(url)

\* key of sorted(): False sorts before True
SortKey(priority, url) ==
  IF priority = "ipv6" THEN ~is_ipv6(url) ELSE is_ipv6(url)

\* position after the last element whose key is <= the key of url (stable)
InsertPos(priority, done, url) ==
  IF SortKey(priority, url) THEN Len(done)
  ELSE Cardinality({i \in 1..Len(done) : ~SortKey(priority, done[i])})

RECURSIVE SortedFold(_, _, _)
SortedFold(priority, done, rest) ==
  IF rest = <<>> THEN done
  ELSE SortedFold(priority,
                  SubSeq(done, 1, InsertPos(priority, done, Head(rest)))
                  \o <<Head(rest)>>
                  \o SubSeq(done, InsertPos(priority, done, Head(rest)) + 1, Len(done)),
                  Tail(rest))

Sorted(priority, urls) == SortedFold(priority, <<>>, urls)

BlacklistedNever(blacklist, url) == FALSE

Blacklisted(blacklist, url) ==
  \E i \in 1..Len(blacklist) : Contains(url, blacklist[i])

sort_and_filter_urls(urls, written, priority, blacklist) ==
  SelectSeq(Sorted(priority, urls),
            LAMBDA u : u # <<>> /\ u \notin written /\ ~Blacklisted(blacklist, u))

(* ------------------------------ add_url_suffix ------------------------- *)
FamilyTag(url) == IF is_ipv6(url) THEN "LR*IPV6" ELSE "LR*IPV4"

LineMark(index) == <<"LBRK", "line", ToString(index), "RBRK">>

BaseUrl(url) ==
  IF IndexOf(url, "$") > 0 THEN SubSeq(url, 1, IndexOf(url, "$") - 1) ELSE url

AddUrlSuffixAlwaysMarked(url, index, total_urls) ==
  BaseUrl(url) \o <<"$", FamilyTag(url)>> \o LineMark(index)

add_url_suffix(url, index, total_urls) ==
  BaseUrl(url) \o <<"$", FamilyTag(url)>>
  \o (IF total_urls = 1 THEN <<>> ELSE LineMark(index))

(* ------------------------------ write_to_files ------------------------- *)
ExtInfLine(category, name, index) ==
  <<"#", "EXTINF", ":-1", " ", "tvg-id=", "QUOTE", ToString(index), "QUOTE", " ",
    "tvg-name=", "QUOTE">> \o name
  \o <<"QUOTE", " ", "tvg-logo=", "QUOTE", "logo/">> \o name
  \o <<".png", "QUOTE", " ", "group-title=", "QUOTE">> \o category
  \o <<"QUOTE", ",">> \o name

M3ULinesFor(category, name, urls) ==
  Concat([i \in 1..Len(urls) |->
            <<ExtInfLine(category, name, i), add_url_suffix(urls[i], i, Len(urls))>>])

TxtLinesFor(name, urls) ==
  [i \in 1..Len(urls) |-> name \o <<",">> \o add_url_suffix(urls[i], i, Len(urls))]

CategoryHeaderIfMatched(matched, category) ==
  IF Has(matched, category) /\ Get(matched, category) # <<>>
  THEN <<category \o <<",">> \o GenreMark>>
  ELSE <<>>

CategoryHeader(matched, category) == <<category \o <<",">> \o GenreMark>>

EpgUrls == <<<<"epg1">>, <<"epg2">>>>

RECURSIVE JoinQuoted(_)
JoinQuoted(us) ==
  IF us = <<>> THEN <<>>
  ELSE <<"QUOTE">> \o Head(us) \o <<"QUOTE">>
       \o (IF Tail(us) = <<>> THEN <<>> ELSE <<",">> \o JoinQuoted(Tail(us)))

M3UHeader == <<"#", "EXTM3U", " ", "x-tvg-url=">> \o JoinQuoted(EpgUrls)

(* ------------------------------ inputs --------------------------------- *)
NormAtoms == {"C", "0", "5", "-", " ", "h"}

SeqsUpTo(S, n) == UNION {[1..m -> S] : m \in 0..n}

NameHD == <<"C", "C", "T", "V", "-", "1", " ", "LBRK", "H", "D", "RBRK">>

Name05 == <<"C", "C", "T", "V", "0", "5">>

NormInputs == SeqsUpTo(NormAtoms, MaxNameLen) \cup {NameHD, Name05}

U6a == <<"http://", "[", ":", ":", "1", "]", "/a">>

U4b == <<"http://", "b/c">>

U6ax == U6a \o <<"$", "x">>

U4by == U4b \o <<"$", "y">>

Us6 == <<"https://", "[", ":", ":", "1", "]", "/a">>

Ubad == <<"http://", "bad", "/c">>

Ux1 == <<"http://", "x/1">>

Ux2 == <<"http://", "x/2">>

Ua1 == <<"http://", "a/1">>

Ua2 == <<"http://", "a/2">>

GenreLine(category) == category \o <<",">> \o GenreMark

ExtInfSrc(category, name) ==
  <<"#", "EXTINF", ":-1", " ", "group-title=", "QUOTE">> \o category
  \o <<"QUOTE", ",">> \o name

M3ULineSet ==
  { ExtInfSrc(<<"News">>, <<"A">>),
    ExtInfSrc(<<"Kids">>, Name05),
    ExtInfSrc(<<"News">>, <<>>),
    <<"#", "EXTINF", ":-1", ",">> \o <<"B">>,
    Ux1, <<" ">> \o Ux2,
    <<"#", "EXTVLCOPT">>,
    <<>> }

TxtLineSet ==
  { GenreLine(<<"News">>),
    GenreLine(<<"Kids">>),
    <<"NewsChannel", ",">> \o Ua1 \o <<"#">> \o Ua2,
    Name05 \o <<",", " ">> \o U4b \o <<"#">>,
    <<"Bare">>,
    <<>> }

TemplateFiles ==
  { << GenreLine(<<"News">>), <<"A">>, <<"C", "C", "T", "V", "5">>,
       GenreLine(<<"Kids">>), <<"B", ",", "x">> >>,
    << GenreLine(<<"Kids">>), <<"B">>, GenreLine(<<"News">>), <<"A">>, <<"A">> >>,
    << GenreLine(<<"News">>), <<"A">>, GenreLine(<<"Empty">>),
       GenreLine(<<"Other">>), <<"A">>, <<"Z">> >>,
    << <<"A">>, <<"#", "note">>, GenreLine(<<"Kids">>), <<"B">>, <<>>,
       GenreLine(<<"News">>), <<"Z">>, GenreLine(<<"Kids">>), <<"A">> >> }

SourceTexts ==
  { << GenreLine(<<"Other">>),
       <<"A", ",">> \o U6a \o <<"#">> \o U4b,
       <<"B", ",">> \o U4b,
       Name05 \o <<",">> \o Ubad \o <<"#">> \o U6ax >>,
    << ExtInfSrc(<<"News">>, <<"A">>), U4b,
       ExtInfSrc(<<"Kids">>, <<"B">>), U4by, U6a >>,
    << GenreLine(<<"News">>),
       <<"A", ",">> \o U4by \o <<"#">> \o Us6 \o <<"#">>,
       <<"B", ",">> \o Ubad,
       <<"Z">> >>,
    [i \in 1..(DetectWindow + 2) |->
       IF i <= DetectWindow THEN <<>>
       ELSE IF i = DetectWindow + 1 THEN ExtInfSrc(<<"News">>, <<"A">>)
       ELSE Ux1] }

Priorities == {"ipv4", "ipv6", "auto"}

Blacklists == {<<>>, <<<<"bad">>>>}

(* ------------------------------ initial states ------------------------- *)
NormIdle == channel_name = NoneVal /\ cleaned_name = NoneVal

ParseIdle == lines = <<>> /\ channels = <<>> /\ current_category = NoneVal

PipeIdle ==
  /\ fetched = <<>>
  /\ all_channels = <<>>
  /\ template_channels = <<>>
  /\ matched_channels = <<>>
  /\ ip_version_priority = "ipv4"
  /\ url_blacklist = <<>>
  /\ written_urls = {}
  /\ f_txt = <<>>
  /\ f_m3u = <<>>
  /\ cat_idx = 0
  /\ ch_idx = 0
  /\ sorted_urls = <<>>
  /\ emitted = <<>>

(* ------------------- clean_channel_name, statement by statement -------- *)
InitNorm ==
  /\ pc = "sub_chars"
  /\ channel_name \in NormInputs
  /\ cleaned_name = NoneVal
  /\ ParseIdle
  /\ PipeIdle

SubChars ==
  /\ pc = "sub_chars"
  /\ cleaned_name' = StripChars(channel_name)
  /\ pc' = "sub_space"
  /\ UNCHANGED <<channel_name, parseVars, pipeVars>>

SubSpace ==
  /\ pc = "sub_space"
  /\ cleaned_name' = StripSpace(cleaned_name)
  /\ pc' = "sub_digits"
  /\ UNCHANGED <<channel_name, parseVars, pipeVars>>

SubDigits ==
  /\ pc = "sub_digits"
  /\ cleaned_name' = IntDigits(cleaned_name)
  /\ pc' = "upper"
  /\ UNCHANGED <<channel_name, parseVars, pipeVars>>

ReturnUpper ==
  /\ pc = "upper"
  /\ cleaned_name' = Upper(cleaned_name)
  /\ pc' = "returned"
  /\ UNCHANGED <<channel_name, parseVars, pipeVars>>

NextNorm == SubChars \/ SubSpace \/ SubDigits \/ ReturnUpper

SpecNorm == InitNorm /\ [][NextNorm]_vars

(* ------------------- parse_m3u_lines, line by line --------------------- *)
ParserState ==
  [channels |-> channels, current_category |-> current_category,
   channel_name |-> channel_name]

ParserMoves(st) ==
  /\ channels' = st.channels
  /\ current_category' = st.current_category
  /\ channel_name' = st.channel_name

InitM3U ==
  /\ pc = "m3u"
  /\ channel_name = NoneVal
  /\ cleaned_name = NoneVal
  /\ ParseIdle
  /\ PipeIdle

M3UMetadataLine(line) ==
  /\ pc = "m3u"
  /\ Len(lines) < MaxLines
  /\ StartsWith(Strip(line), ExtInf)
  /\ lines' = Append(lines, line)
  /\ ParserMoves(M3UStep(ParserState, line))
  /\ UNCHANGED <<pc, cleaned_name, pipeVars>>

M3UUrlLine(line) ==
  /\ pc = "m3u"
  /\ Len(lines) < MaxLines
  /\ Strip(line) # <<>>
  /\ ~StartsWith(Strip(line), <<"#">>)
  /\ lines' = Append(lines, line)
  /\ ParserMoves(M3UStep(ParserState, line))
  /\ UNCHANGED <<pc, cleaned_name, pipeVars>>

M3UIgnoredLine(line) ==
  /\ pc = "m3u"
  /\ Len(lines) < MaxLines
  /\ ~StartsWith(Strip(line), ExtInf)
  /\ Strip(line) = <<>> \/ StartsWith(Strip(line), <<"#">>)
  /\ lines' = Append(lines, line)
  /\ ParserMoves(M3UStep(ParserState, line))
  /\ UNCHANGED <<pc, cleaned_name, pipeVars>>

NextM3U ==
  \/ \E line \in M3ULineSet : M3UMetadataLine(line)
  \/ \E line \in M3ULineSet : M3UUrlLine(line)
  \/ \E line \in M3ULineSet : M3UIgnoredLine(line)

SpecM3U == InitM3U /\ [][NextM3U]_vars

(* ------------------- parse_txt_lines, line by line --------------------- *)
InitTxt ==
  /\ pc = "txt"
  /\ channel_name = NoneVal
  /\ cleaned_name = NoneVal
  /\ ParseIdle
  /\ PipeIdle

TxtGenreLine(line) ==
  /\ pc = "txt"
  /\ Len(lines) < MaxLines
  /\ Contains(Strip(line), GenreMark)
  /\ lines' = Append(lines, line)
  /\ ParserMoves(TxtStep(ParserState, line))
  /\ UNCHANGED <<pc, cleaned_name, pipeVars>>

TxtChannelLine(line) ==
  /\ pc = "txt"
  /\ Len(lines) < MaxLines
  /\ ~Contains(Strip(line), GenreMark)
  /\ Truthy(current_category)
  /\ lines' = Append(lines, line)
  /\ ParserMoves(TxtStep(ParserState, line))
  /\ UNCHANGED <<pc, cleaned_name, pipeVars>>

TxtOrphanLine(line) ==
  /\ pc = "txt"
  /\ Len(lines) < MaxLines
  /\ ~Contains(Strip(line), GenreMark)
  /\ ~Truthy(current_category)
  /\ lines' = Append(lines, line)
  /\ ParserMoves(TxtStep(ParserState, line))
  /\ UNCHANGED <<pc, cleaned_name, pipeVars>>

NextTxt ==
  \/ \E line \in TxtLineSet : TxtGenreLine(line)
  \/ \E line \in TxtLineSet : TxtChannelLine(line)
  \/ \E line \in TxtLineSet : TxtOrphanLine(line)

SpecTxt == InitTxt /\ [][NextTxt]_vars

(* ------------------- filter_source_urls / updateChannelUrlsM3U --------- *)
Init ==
  /\ pc = "template"
  /\ NormIdle
  /\ ParseIdle
  /\ fetched = <<>>
  /\ all_channels = <<>>
  /\ template_channels = <<>>
  /\ matched_channels = <<>>
  /\ ip_version_priority \in Priorities
  /\ url_blacklist \in Blacklists
  /\ written_urls = {}
  /\ f_txt = <<>>
  /\ f_m3u = <<>>
  /\ cat_idx = 0
  /\ ch_idx = 0
  /\ sorted_urls = <<>>
  /\ emitted = <<>>

cfgVars == <<ip_version_priority, url_blacklist>>

outVars == <<written_urls, f_txt, f_m3u, sorted_urls, emitted>>

LoadTemplate(file) ==
  /\ pc = "template"
  /\ template_channels' = parse_template(file)
  /\ pc' = "fetch"
  /\ UNCHANGED <<normVars, parseVars, cfgVars, outVars, fetched, all_channels,
                 matched_channels, cat_idx, ch_idx>>

FetchOk(text) ==
  /\ pc = "fetch"
  /\ Len(fetched) < MaxSources
  /\ fetched' = Append(fetched, [ok |-> TRUE, text |-> text])
  /\ all_channels' = merge_channels(all_channels, fetch_channels(text, TRUE))
  /\ UNCHANGED <<pc, normVars, parseVars, cfgVars, outVars, template_channels,
                 matched_channels, cat_idx, ch_idx>>

FetchFail ==
  /\ pc = "fetch"
  /\ Len(fetched) < MaxSources
  /\ fetched' = Append(fetched, [ok |-> FALSE, text |-> <<>>])
  /\ all_channels' = merge_channels(all_channels, fetch_channels(<<>>, FALSE))
  /\ UNCHANGED <<pc, normVars, parseVars, cfgVars, outVars, template_channels,
                 matched_channels, cat_idx, ch_idx>>

MatchChannels ==
  /\ pc = "fetch"
  /\ matched_channels' = match_channels(template_channels, all_channels)
  /\ pc' = "open"
  /\ UNCHANGED <<normVars, parseVars, cfgVars, outVars, fetched, all_channels,
                 template_channels, cat_idx, ch_idx>>

OpenFiles ==
  /\ pc = "open"
  /\ written_urls' = {}
  /\ f_m3u' = <<M3UHeader>>
  /\ f_txt' = <<>>
  /\ cat_idx' = 1
  /\ pc' = "category"
  /\ UNCHANGED <<normVars, parseVars, cfgVars, fetched, all_channels,
                 template_channels, matched_channels, ch_idx, sorted_urls, emitted>>

CurCategory == template_channels[cat_idx].k

CurChannelList == template_channels[cat_idx].v

CurMatched ==
  /\ Has(matched_channels, CurCategory)
  /\ Has(Get(matched_channels, CurCategory), CurChannelList[ch_idx])

CurCandidates == Get(Get(matched_channels, CurCategory), CurChannelList[ch_idx])

WriteCategoryHeader ==
  /\ pc = "category"
  /\ cat_idx <= Len(template_channels)
  /\ f_txt' = f_txt \o CategoryHeader(matched_channels, CurCategory)
  /\ ch_idx' = 1
  /\ pc' = "channel"
  /\ UNCHANGED <<normVars, parseVars, cfgVars, fetched, all_channels,
                 template_channels, matched_channels, cat_idx, written_urls,
                 f_m3u, sorted_urls, emitted>>

EmittedFor(category, name, urls) ==
  [i \in 1..Len(urls) |->
     [category |-> category, channel_name |-> name, index |-> i,
      url |-> urls[i], new_url |-> add_url_suffix(urls[i], i, Len(urls))]]

WriteChannel ==
  /\ pc = "channel"
  /\ ch_idx <= Len(CurChannelList)
  /\ CurMatched
  /\ sorted_urls' = sort_and_filter_urls(CurCandidates, written_urls,
                                         ip_version_priority, url_blacklist)
  /\ written_urls' = written_urls \cup {sorted_urls'[i] : i \in 1..Len(sorted_urls')}
  /\ f_m3u' = f_m3u \o M3ULinesFor(CurCategory, CurChannelList[ch_idx], sorted_urls')
  /\ f_txt' = f_txt \o TxtLinesFor(CurChannelList[ch_idx], sorted_urls')
  /\ emitted' = emitted \o EmittedFor(CurCategory, CurChannelList[ch_idx], sorted_urls')
  /\ ch_idx' = ch_idx + 1
  /\ UNCHANGED <<pc, normVars, parseVars, cfgVars, fetched, all_channels,
                 template_channels, matched_channels, cat_idx>>

SkipChannel ==
  /\ pc = "channel"
  /\ ch_idx <= Len(CurChannelList)
  /\ ~CurMatched
  /\ ch_idx' = ch_idx + 1
  /\ UNCHANGED <<pc, normVars, parseVars, cfgVars, outVars, fetched, all_channels,
                 template_channels, matched_channels, cat_idx>>

NextCategory ==
  /\ pc = "channel"
  /\ ch_idx > Len(CurChannelList)
  /\ cat_idx' = cat_idx + 1
  /\ pc' = "category"
  /\ UNCHANGED <<normVars, parseVars, cfgVars, outVars, fetched, all_channels,
                 template_channels, matched_channels, ch_idx>>

CloseFiles ==
  /\ pc = "category"
  /\ cat_idx > Len(template_channels)
  /\ f_txt' = Append(f_txt, <<>>)
  /\ pc' = "done"
  /\ UNCHANGED <<normVars, parseVars, cfgVars, fetched, all_channels,
                 template_channels, matched_channels, cat_idx, ch_idx,
                 written_urls, f_m3u, sorted_urls, emitted>>

Next ==
  \/ \E file \in TemplateFiles : LoadTemplate(file)
  \/ \E text \in SourceTexts : FetchOk(text)
  \/ FetchFail
  \/ MatchChannels
  \/ OpenFiles
  \/ WriteCategoryHeader
  \/ WriteChannel
  \/ SkipChannel
  \/ NextCategory
  \/ CloseFiles

Spec == Init /\ [][Next]_vars

(* ======================= properties: name normalizer =================== *)
\* C7 as written: clean_channel_name gives "CCTV1" for "CCTV-1 [HD]" (corner
\* brackets) and "CCTV5" for "CCTV05".
C7_AsWritten ==
  pc = "returned" =>
    /\ channel_name = NameHD => cleaned_name = <<"C", "C", "T", "V", "1">>
    /\ channel_name = Name05 => cleaned_name = <<"C", "C", "T", "V", "5">>

\* C7 amended: clean_channel_name removes the two bracket characters but keeps
\* the text between them, so "CCTV-1 [HD]" becomes "CCTV1HD"; "CCTV05" becomes
\* "CCTV5".
C7_Normalize ==
  pc = "returned" =>
    /\ channel_name = NameHD =>
         cleaned_name = <<"C", "C", "T", "V", "1", "H", "D">>
    /\ channel_name = Name05 => cleaned_name = <<"C", "C", "T", "V", "5">>

C7_Witness ==
  /\ pc = "returned"
  /\ channel_name = NameHD
  /\ cleaned_name = <<"C", "C", "T", "V", "1", "H", "D">>

(* ======================= properties: extended format =================== *)
IsUrlLine(l) == Strip(l) # <<>> /\ ~StartsWith(Strip(l), <<"#">>)

IsMetaLine(l) == StartsWith(Strip(l), ExtInf)

LastMeta(i) ==
  IF \E j \in 1..(i - 1) : IsMetaLine(lines[j])
  THEN CHOOSE j \in 1..(i - 1) :
         IsMetaLine(lines[j]) /\ \A m \in (j + 1)..(i - 1) : ~IsMetaLine(lines[m])
  ELSE 0

MetaExtracted(l) ==
  /\ ExtInfMatch(Strip(l))
  /\ ExtInfCategory(Strip(l)) # <<>>
  /\ ExtInfName(Strip(l)) # <<>>

FirstUrlAfterMeta(i) ==
  /\ IsUrlLine(lines[i])
  /\ LastMeta(i) > 0
  /\ MetaExtracted(lines[LastMeta(i)])
  /\ \A m \in (LastMeta(i) + 1)..(i - 1) : ~IsUrlLine(lines[m])

RECURSIVE ExpectedM3U(_, _)
ExpectedM3U(category, i) ==
  IF i = 0 THEN <<>>
  ELSE ExpectedM3U(category, i - 1)
       \o (IF FirstUrlAfterMeta(i)
              /\ ExtInfCategory(Strip(lines[LastMeta(i)])) = category
           THEN << <<NormalizeIfCCTV(ExtInfName(Strip(lines[LastMeta(i)]))),
                     Strip(lines[i])>> >>
           ELSE <<>>)

\* C8 as written: a URL line becomes an entry only when it is the first URL
\* line after a metadata line that yielded a category and a name, under that
\* line's category and name; every other URL line is dropped.
C8_OneUrlPerMetadata ==
  pc = "m3u" =>
    \A i \in 1..Len(channels) :
      channels[i].v = ExpectedM3U(channels[i].k, Len(lines))

(* ======================= properties: delimited format ================== *)
IsGenreLine(l) == Contains(Strip(l), GenreMark)

ActiveAt(i) ==
  IF \E j \in 1..(i - 1) : IsGenreLine(lines[j])
  THEN LET j == CHOOSE j \in 1..(i - 1) :
                  IsGenreLine(lines[j]) /\ \A m \in (j + 1)..(i - 1) : ~IsGenreLine(lines[m])
       IN Strip(Split(Strip(lines[j]), ",")[1])
  ELSE NoneVal

RECURSIVE ExpectedTxt(_, _)
ExpectedTxt(category, i) ==
  IF i = 0 THEN <<>>
  ELSE ExpectedTxt(category, i - 1)
       \o (IF ~IsGenreLine(lines[i]) /\ ActiveAt(i) = category
              /\ IndexOf(Strip(lines[i]), ",") > 0
           THEN PairsOf(TxtName(Strip(lines[i])), TxtUrls(Strip(lines[i])))
           ELSE <<>>)

RECURSIVE IsSubseq(_, _)
IsSubseq(a, b) ==
  IF a = <<>> THEN TRUE
  ELSE IF b = <<>> THEN FALSE
  ELSE IF Head(a) = Head(b) THEN IsSubseq(Tail(a), Tail(b))
  ELSE IsSubseq(a, Tail(b))

\* C9 as written: the result for a category holds, in line order, one
\* (name,url) pair per '#'-separated segment of every name,rest line read while
\* that category was the active one.
C9_EverySegmentKept ==
  pc = "txt" =>
    \A i \in 1..Len(channels) :
      channels[i].k # <<>> =>
        IsSubseq(ExpectedTxt(channels[i].k, Len(lines)), channels[i].v)

(* ======================= properties: pipeline ========================== *)
Range(q) == {q[i] : i \in 1..Len(q)}

ListedBlack(u) == \E i \in 1..Len(url_blacklist) : Contains(u, url_blacklist[i])

\* the step that visits a template channel present in the match result
ChannelVisit == pc = "channel" /\ ch_idx' = ch_idx + 1 /\ CurMatched

\* C1 as written: no literal candidate URL is emitted more than once in one
\* run of the writer, neither under one channel nor under a later one.
C1_NoUrlEmittedTwice ==
  \A i, j \in 1..Len(emitted) : i # j => emitted[i].url # emitted[j].url

IsHeaderLine(l) == Len(l) >= 4 /\ SubSeq(l, Len(l) - 3, Len(l)) = <<",">> \o GenreMark

IsEntryLine(l) == l # <<>> /\ ~IsHeaderLine(l)

HeaderBefore(p) ==
  LET h == CHOOSE h \in 1..(p - 1) :
             IsHeaderLine(f_txt[h]) /\ \A m \in (h + 1)..(p - 1) : ~IsHeaderLine(f_txt[m])
  IN SubSeq(f_txt[h], 1, Len(f_txt[h]) - 4)

EntryPositions == {p \in 1..Len(f_txt) : IsEntryLine(f_txt[p])}

EntryRank(p) == Cardinality({q \in EntryPositions : q <= p})

\* C2: the header lines of the delimited output are exactly the template's
\* categories, one each, in template order, also for categories without a
\* matched channel; every entry line stands under the header of the template
\* category that lists its channel.
C2_HeadersFollowTemplate ==
  pc = "done" =>
    /\ SelectSeq(f_txt, IsHeaderLine)
         = [i \in 1..Len(template_channels) |->
              template_channels[i].k \o <<",">> \o GenreMark]
    /\ Cardinality(EntryPositions) = Len(emitted)
    /\ \A p \in EntryPositions :
         /\ \E h \in 1..(p - 1) : IsHeaderLine(f_txt[h])
         /\ HeaderBefore(p) = emitted[EntryRank(p)].category
         /\ Has(template_channels, HeaderBefore(p))
         /\ SubSeq(f_txt[p], 1, IndexOf(f_txt[p], ",") - 1)
              \in Range(Get(template_channels, HeaderBefore(p)))

C2_Witness ==
  /\ pc = "done"
  /\ emitted # <<>>
  /\ Len(template_channels) >= 2
  /\ Len(all_channels) >= 2
  /\ \E i, j \in 1..Len(all_channels) :
       i < j /\ all_channels[i].k = template_channels[2].k
             /\ all_channels[j].k = template_channels[1].k
  /\ \E i \in 1..Len(matched_channels) : matched_channels[i].v = <<>>

ParseOf(text) == IF IsM3U(text) THEN parse_m3u_lines(text) ELSE parse_txt_lines(text)

OkParses ==
  LET oks == SelectSeq(fetched, LAMBDA f : f.ok)
  IN [i \in 1..Len(oks) |-> ParseOf(oks[i].text)]

RECURSIVE FirstSeen(_)
FirstSeen(q) ==
  IF q = <<>> THEN <<>>
  ELSE LET d == FirstSeen(SubSeq(q, 1, Len(q) - 1))
       IN IF q[Len(q)] \in Range(d) THEN d ELSE Append(d, q[Len(q)])

\* C3: the repository is the merge, in source-list order, of the parse results
\* of exactly the sources fetched successfully; a failed source adds nothing
\* and later sources are still processed.  Categories stand in first-seen
\* order and each category's list is the concatenation of the sources' lists.
C3_RepositoryIsMergeOfFetched ==
  pc = "fetch" =>
  /\ Keys(all_channels)
       = FirstSeen(Concat([i \in 1..Len(OkParses) |-> Keys(OkParses[i])]))
  /\ \A c \in Range(Keys(all_channels)) :
       Get(all_channels, c)
         = Concat([i \in 1..Len(OkParses) |->
                     IF Has(OkParses[i], c) THEN Get(OkParses[i], c) ELSE <<>>])

C3_Witness ==
  /\ pc = "fetch"
  /\ Len(fetched) = 3
  /\ ~fetched[1].ok /\ fetched[2].ok /\ fetched[3].ok
  /\ fetched[2].text # fetched[3].text
  /\ \E c \in Range(Keys(all_channels)) :
       /\ Has(ParseOf(fetched[2].text), c) /\ Get(ParseOf(fetched[2].text), c) # <<>>
       /\ Has(ParseOf(fetched[3].text), c) /\ Get(ParseOf(fetched[3].text), c) # <<>>
  /\ Len(all_channels) >= 2

\* C4: a candidate URL containing a configured blacklist substring is never
\* emitted, and a visit to a channel whose candidates are all blacklisted
\* writes nothing to either file.
C4_BlacklistedNeverEmitted ==
  [][ /\ \A i \in 1..Len(emitted') : ~ListedBlack(emitted'[i].url)
      /\ (ChannelVisit /\ \A u \in Range(CurCandidates) : ListedBlack(u))
           => (f_txt' = f_txt /\ f_m3u' = f_m3u) ]_vars

C4_Witness ==
  /\ pc = "done"
  /\ url_blacklist # <<>>
  /\ emitted # <<>>
  /\ \E i \in 1..Len(matched_channels) :
       \E j \in 1..Len(matched_channels[i].v) :
         /\ \A u \in Range(matched_channels[i].v[j].v) : ListedBlack(u)
         /\ \A e \in Range(emitted) : e.channel_name # matched_channels[i].v[j].k

Survivors ==
  SelectSeq(CurCandidates,
            LAMBDA u : u # <<>> /\ u \notin written_urls /\ ~ListedBlack(u))

\* C5: sort_and_filter_urls returns the surviving candidates as a stable
\* partition by address family: IPv6 literals first under "ipv6", the others
\* first under any other setting, candidate order kept inside each family.
C5_StablePartition ==
  [][ ChannelVisit =>
        sorted_urls' =
          IF ip_version_priority = "ipv6"
          THEN SelectSeq(Survivors, LAMBDA u : is_ipv6(u))
               \o SelectSeq(Survivors, LAMBDA u : ~is_ipv6(u))
          ELSE SelectSeq(Survivors, LAMBDA u : ~is_ipv6(u))
               \o SelectSeq(Survivors, LAMBDA u : is_ipv6(u)) ]_vars

C5_Witness ==
  /\ pc = "channel"
  /\ ip_version_priority = "ipv4"
  /\ ch_idx > 1
  /\ Has(Get(matched_channels, CurCategory), CurChannelList[ch_idx - 1])
  /\ Get(Get(matched_channels, CurCategory), CurChannelList[ch_idx - 1]) = <<U6a, U4b>>
  /\ sorted_urls = <<U4b, U6a>>

CutAt(u) ==
  CHOOSE j \in 0..Len(u) :
    /\ \A m \in 1..j : u[m] # "$"
    /\ j = Len(u) \/ u[j + 1] = "$"

Ipv6Literal(u) ==
  /\ Len(u) >= 4
  /\ SubSeq(u, 1, 2) = <<"http://", "[">>
  /\ \E k \in 4..Len(u) : u[k] = "]" /\ Range(SubSeq(u, 3, k - 1)) \subseteq HexColon

TaggedUrl(u, k, n) ==
  SubSeq(u, 1, CutAt(u))
  \o <<"$", IF Ipv6Literal(u) THEN "LR*IPV6" ELSE "LR*IPV4">>
  \o (IF n = 1 THEN <<>> ELSE <<"LBRK", "line", ToString(k), "RBRK">>)

\* C6: a visit that leaves N ranked URLs writes N entries numbered 1..N in
\* ranked order; entry k carries the k-th URL cut at its first '$', then the
\* tag of that URL's own family, then the line marker k unless N = 1.
C6_EntriesNumberedAndTagged ==
  [][ ChannelVisit =>
        LET n == Len(sorted_urls') IN
        /\ Len(f_txt') = Len(f_txt) + n
        /\ Len(f_m3u') = Len(f_m3u) + 2 * n
        /\ SubSeq(f_txt', 1, Len(f_txt)) = f_txt
        /\ SubSeq(f_m3u', 1, Len(f_m3u)) = f_m3u
        /\ \A k \in 1..n :
             /\ f_txt'[Len(f_txt) + k]
                  = CurChannelList[ch_idx] \o <<",">> \o TaggedUrl(sorted_urls'[k], k, n)
             /\ f_m3u'[Len(f_m3u) + 2 * k] = TaggedUrl(sorted_urls'[k], k, n)
             /\ SubSeq(f_m3u'[Len(f_m3u) + 2 * k - 1], 1, 8)
                  = <<"#", "EXTINF", ":-1", " ", "tvg-id=", "QUOTE", ToString(k), "QUOTE">> ]_vars

C6_Witness ==
  /\ pc = "done"
  /\ ip_version_priority = "ipv4"
  /\ \E e \in Range(emitted) : e.index = 1 /\ ~Contains(e.new_url, <<"LBRK">>)
  /\ \E e \in Range(emitted) :
       /\ e.index = 2
       /\ is_ipv6(e.url)
       /\ f_txt[Len(f_txt) - 1]
            = e.channel_name \o <<",">> \o U6a \o <<"$", "LR*IPV6", "LBRK", "line", "2", "RBRK">>
  /\ \E e \in Range(emitted) : Contains(e.url, <<"$">>) /\ ~Contains(e.new_url, <<"$", "y">>)

NameHits(name) ==
  LET all == Concat([i \in 1..Len(all_channels) |-> all_channels[i].v])
      hits == SelectSeq(all, LAMBDA e : e[1] = name)
  IN [i \in 1..Len(hits) |-> hits[i][2]]

\* C10 as written: for every template category and channel name, the candidate
\* list is the URLs of all repository entries with exactly that name, once
\* each in repository scan order; a name without a match is absent.
C10_EachMatchOnce ==
  pc \notin {"template", "fetch"} =>
    /\ Keys(matched_channels) = Keys(template_channels)
    /\ \A i \in 1..Len(template_channels) :
         \A name \in Range(template_channels[i].v) :
           IF NameHits(name) = <<>>
           THEN ~Has(matched_channels[i].v, name)
           ELSE /\ Has(matched_channels[i].v, name)
                /\ Get(matched_channels[i].v, name) = NameHits(name)

====
